---- MODULE Spec2Model ----
(***************************************************************************)
(* Model of esbuild.config.js: the build script of the accessibility       *)
(* widget.  The script reads package.json and the command line, constructs *)
(* the base configuration and the targets table, and then runs build():    *)
(* either one watch context, or the one-shot concurrent build of the       *)
(* targets.  The bundling engine (esbuild) and the JavaScript runtime      *)
(* (promises, process exit) are modelled as the environment of the script. *)
(*                                                                         *)
(* Strings that the script concatenates are sequences of text pieces: the  *)
(* interpolated values (version, license, ...) are sequences of single     *)
(* characters, the literals of a template are sequences of pieces.         *)
(***************************************************************************)
EXTENDS Integers, Sequences, FiniteSets, TLC

VARIABLES argv, packageJson, clock, pc, baseConfig, targets, buildTarget,
          builds, ctx, log, written, exitCode

vars == <<argv, packageJson, clock, pc, baseConfig, targets, buildTarget,
          builds, ctx, log, written, exitCode>>

----------------------------------------------------------------------------
(* Bounds of the model *)

\* longest version string of package.json that is enumerated
MaxVerLen == 2
\* largest number of rebuilds the watch context performs
MaxRebuilds == 2

----------------------------------------------------------------------------
(* JavaScript values *)

Undefined == [jstype |-> "undefined"]
\* Object.prototype.constructor, what targets['constructor'] evaluates to
ObjectFunction == [jstype |-> "function"]

IsPlainObject(v) == "jstype" \notin DOMAIN v

\* own enumerable keys, as the spread syntax sees them
OwnKeys(v) == IF IsPlainObject(v) THEN DOMAIN v ELSE {}

\* { ...a, ...b }
Spread(a, b) ==
    [k \in OwnKeys(a) \cup OwnKeys(b) |->
        IF k \in OwnKeys(b) THEN b[k] ELSE a[k]]

\* the text that a template literal or console.log prints for v.outfile
UndefinedText == <<"u", "n", "d", "e", "f", "i", "n", "e", "d">>

RECURSIVE Flatten(_)
Flatten(ss) == IF ss = <<>> THEN <<>> ELSE Head(ss) \o Flatten(Tail(ss))

Contains(s, sub) ==
    \E i \in 0..(Len(s) - Len(sub)) : SubSeq(s, i + 1, i + Len(sub)) = sub

----------------------------------------------------------------------------
(* Command line: an argument is the sequence of its pieces around '=' *)

WatchFlag == <<"--watch">>
MinifyFlag == <<"--minify">>
TargetFlag(name) == <<"--target", name>>

TargetNames == {"esm", "cjs", "umd", "umd-versioned", "bogus", "constructor"}

RECURSIVE SeqsUpTo(_, _)
SeqsUpTo(S, n) ==
    IF n = 0 THEN {<<>>}
    ELSE LET shorter == SeqsUpTo(S, n - 1)
         IN  shorter \cup {Append(s, x) : s \in shorter, x \in S}

\* no --target= argument, one, or two of which the first one counts
TargetArgs ==
    {<<>>} \cup {<<TargetFlag(n)>> : n \in TargetNames}
           \cup {<<TargetFlag("umd-versioned"), TargetFlag("esm")>>,
                 <<TargetFlag("bogus"), TargetFlag("umd")>>}

\* the command lines: with or without --watch, and with --target= arguments
\* or with --minify
Argvs ==
    {w \o t : w \in {<<>>, <<WatchFlag>>},
              t \in TargetArgs \cup {<<MinifyFlag>>}}

\* process.argv.includes(flag)
Includes(args, flag) == \E i \in 1..Len(args) : args[i] = flag

isWatch == Includes(argv, WatchFlag)
isMinify == Includes(argv, MinifyFlag)

\* arg.startsWith('--target=')
IsTargetArg(arg) == Len(arg) >= 2 /\ arg[1] = "--target"

\* process.argv.find(...): the first match, or undefined
targetArg ==
    IF \E i \in 1..Len(argv) : IsTargetArg(argv[i])
    THEN argv[CHOOSE i \in 1..Len(argv) :
                /\ IsTargetArg(argv[i])
                /\ \A j \in 1..(i - 1) : ~IsTargetArg(argv[j])]
    ELSE <<>>

\* targetArg ? targetArg.split('=')[1] : 'umd'
targetFormat == IF targetArg # <<>> THEN targetArg[2] ELSE "umd"

----------------------------------------------------------------------------
(* package.json *)

VersionChars == {"1", ".", "-"}
\* the bounded version strings, and the version of the documented fixture
Versions == SeqsUpTo(VersionChars, MaxVerLen) \cup {<<"1", ".", "2", ".", "3">>}
Licenses == {<<"M", "I", "T">>, <<"I", "S", "C">>}

RequiredFields(v, l) ==
    [version |-> v, license |-> l, author |-> <<"A">>,
     repository |-> [url |-> <<"https://example.com/repo">>]]

OptionalFields ==
    [modifiedByCompany |-> <<"Co">>, modifiedByAuthor |-> <<"Dev">>,
     originalRepository |-> [url |-> <<"https://example.com/orig">>]]

Restrict(f, S) == [k \in S |-> f[k]]
Extend(f, g) == [k \in DOMAIN f \cup DOMAIN g |->
                    IF k \in DOMAIN g THEN g[k] ELSE f[k]]

PackageJsons ==
    {Extend(RequiredFields(v, l), Restrict(OptionalFields, opt)) :
        v \in Versions, l \in Licenses, opt \in SUBSET DOMAIN OptionalFields}

PackageFixtures ==
    {RequiredFields(<<"1", ".", "2">>, <<"M", "I", "T">>),
     Extend(RequiredFields(<<"1">>, <<"I", "S", "C">>), OptionalFields)}

\* new Date().getFullYear() at the two places of the banner
Clocks == {<<"2025", "2025">>, <<"2025", "2026">>, <<"2026", "2026">>}

Has(obj, k) == k \in DOMAIN obj

----------------------------------------------------------------------------
(* Construction of the configuration *)

ModifiedLine(pkg, years) ==
    IF Has(pkg, "modifiedByCompany")
    THEN <<" * Modified by ">> \o pkg.modifiedByCompany \o <<", ", years[1]>>
         \o (IF Has(pkg, "modifiedByAuthor")
             THEN <<" (">> \o pkg.modifiedByAuthor \o <<")">>
             ELSE <<>>)
    ELSE <<>>

OriginalRepositoryUrl(pkg) ==
    IF Has(pkg, "originalRepository")
    THEN pkg.originalRepository.url
    ELSE pkg.repository.url

\* a banner that reads a field that package.json does not have
BannerMisspelled(pkg, years) ==
    Flatten(<<
        <<"/*!", "\n">>,
        <<"* ", "Accessibility Widget v">>, pkg.version, <<"\n">>,
        <<"* Based on \"Sienna Accessibility Widget\" by bennyluk (MIT License)",
          "\n">>,
        ModifiedLine(pkg, years), <<"\n">>,
        <<"* ", "License: ">>, UndefinedText, <<"\n">>,
        <<"* ", "Repository: ">>, pkg.repository.url, <<"\n">>,
        <<"* ", "\n">>,
        <<"* ", "Original: (c) ", years[2], " ">>, pkg.author, <<"\n">>,
        <<"* ", "Original Repository: ">>, OriginalRepositoryUrl(pkg), <<"\n">>,
        <<"*/">> >>)

Banner(pkg, years) ==
    Flatten(<<
        <<"/*!", "\n">>,
        <<"* ", "Accessibility Widget v">>, pkg.version, <<"\n">>,
        <<"* Based on \"Sienna Accessibility Widget\" by bennyluk (MIT License)",
          "\n">>,
        ModifiedLine(pkg, years), <<"\n">>,
        <<"* ", "License: ">>, pkg.license, <<"\n">>,
        <<"* ", "Repository: ">>, pkg.repository.url, <<"\n">>,
        <<"* ", "\n">>,
        <<"* ", "Original: (c) ", years[2], " ">>, pkg.author, <<"\n">>,
        <<"* ", "Original Repository: ">>, OriginalRepositoryUrl(pkg), <<"\n">>,
        <<"*/">> >>)

BaseConfig(pkg, years, minify) ==
    [entryPoints |-> <<"./src/entry.ts">>,
     bundle |-> TRUE,
     minify |-> minify,
     sourcemap |-> TRUE,
     alias |-> [at |-> "./src"],
     loader |-> [html |-> "text", svg |-> "text"],
     plugins |-> <<"CSSMinifyPlugin", "HTMLMinifyPlugin">>,
     banner |-> [js |-> Banner(pkg, years)]]

OutDir ==
    <<"d", "i", "s", "t", "/", "a", "c", "c", "e", "s", "s", "i", "b", "i",
      "l", "i", "t", "y", "-", "w", "i", "d", "g", "e", "t">>

EsmOutfile == OutDir \o <<".", "e", "s", "m", ".", "j", "s">>
CjsOutfile == OutDir \o <<".", "c", "j", "s", ".", "j", "s">>
UmdOutfile == OutDir \o <<".", "u", "m", "d", ".", "j", "s">>
\* a versioned name whose dash comes with the version
VersionedOutfileOptional(version) ==
    OutDir \o (IF version = <<>> THEN <<>> ELSE <<"-">> \o version)
           \o <<".", "u", "m", "d", ".", "j", "s">>

VersionedOutfile(version) ==
    OutDir \o <<"-">> \o version \o <<".", "u", "m", "d", ".", "j", "s">>

\* the targets table, in insertion order (the order of Object.entries)
Targets(version) ==
    << [key |-> "esm",
        value |-> [format |-> "esm", outfile |-> EsmOutfile]],
       [key |-> "cjs",
        value |-> [format |-> "cjs", outfile |-> CjsOutfile]],
       [key |-> "umd",
        value |-> [format |-> "iife", outfile |-> UmdOutfile,
                   globalName |-> "AccessibilityWidget"]],
       [key |-> "umd-versioned",
        value |-> [format |-> "iife", outfile |-> VersionedOutfile(version),
                   globalName |-> "AccessibilityWidget"]] >>

\* names that every object inherits from Object.prototype
InheritedFunctions == {"constructor"}

\* table[name]
Lookup(table, name) ==
    IF \E i \in 1..Len(table) : table[i].key = name
    THEN table[CHOOSE i \in 1..Len(table) : table[i].key = name].value
    ELSE IF name \in InheritedFunctions THEN ObjectFunction
    ELSE Undefined

\* the module body up to the call of build()
Load ==
    /\ pc = "load"
    /\ baseConfig' = BaseConfig(packageJson, clock, isMinify)
    /\ targets' = Targets(packageJson.version)
    /\ buildTarget' = Lookup(targets', targetFormat)
    /\ pc' = "main"
    /\ UNCHANGED <<argv, packageJson, clock, builds, ctx, log, written,
                   exitCode>>

NoExit == -1

InitFrom(args, pkgs, clocks) ==
    /\ argv \in args
    /\ packageJson \in pkgs
    /\ clock \in clocks
    /\ pc = "load"
    /\ baseConfig = Undefined
    /\ targets = <<>>
    /\ buildTarget = Undefined
    /\ builds = <<>>
    /\ ctx = Undefined
    /\ log = <<>>
    /\ written = {}
    /\ exitCode = NoExit

\* the configuration for every package.json, on a few command lines
InitConfig ==
    InitFrom({<<>>, <<TargetFlag("umd-versioned")>>, <<MinifyFlag>>},
             PackageJsons, Clocks)

NextConfig == Load

SpecConfig == InitConfig /\ [][NextConfig]_vars

----------------------------------------------------------------------------
(* The load hooks of the two plugins *)

AssetPaths == {"css", "html"}

\* filter: /\.css$/
MatchesCSS(path) == path = "css"
\* filter: /\.(html|svg)$/
MatchesHTML(path) == path \in {"html", "svg"}

\* a hook that catches its failure and returns the file as it is
CSSMinifyPluginCatch(readable, minifiable) ==
    [reads |-> 1, result |-> "text"]

\* the onLoad callback of CSSMinifyPlugin: readFileSync, esbuild.transform
CSSMinifyPlugin(readable, minifiable) ==
    IF ~readable THEN [reads |-> 1, result |-> "error"]
    ELSE IF ~minifiable THEN [reads |-> 1, result |-> "error"]
    ELSE [reads |-> 1, result |-> "text"]

\* the onLoad callback of HTMLMinifyPlugin: readFileSync, minify, trim
HTMLMinifyPlugin(readable, minifiable) ==
    IF ~readable THEN [reads |-> 1, result |-> "error"]
    ELSE IF ~minifiable THEN [reads |-> 1, result |-> "error"]
    ELSE [reads |-> 1, result |-> "text"]

----------------------------------------------------------------------------
(* Builds that the engine runs *)

\* esbuild.build(config), or one rebuild of a watch context
NewBuild(key, config) ==
    [key |-> key, config |-> config, status |-> "pending",
     reads |-> [p \in AssetPaths |-> 0],
     faults |-> {},
     loaded |-> [p \in AssetPaths |-> "none"]]

\* a selection that forgets the filter
targetsToBuildUnfiltered == targets

\* Object.entries(targets).filter(([key]) => key !== 'umd-versioned')
targetsToBuild == SelectSeq(targets, LAMBDA e : e.key # "umd-versioned")

\* Promise.allSettled in the place of Promise.all
PromiseAllSettled(bs) ==
    IF \A i \in 1..Len(bs) : bs[i].status # "pending" THEN "fulfilled"
    ELSE "pending"

\* Promise.any in the place of Promise.all
PromiseAny(bs) ==
    IF \E i \in 1..Len(bs) : bs[i].status = "fulfilled" THEN "fulfilled"
    ELSE IF \A i \in 1..Len(bs) : bs[i].status = "rejected" THEN "rejected"
    ELSE "pending"

\* the state of the promise of Promise.all over the builds
PromiseAll(bs) ==
    IF \E i \in 1..Len(bs) : bs[i].status = "rejected" THEN "rejected"
    ELSE IF \A i \in 1..Len(bs) : bs[i].status = "fulfilled" THEN "fulfilled"
    ELSE "pending"

\* the engine works on builds while the script waits for it
EngineRuns ==
    \/ pc = "awaitAll" /\ PromiseAll(builds) = "pending"
    \/ pc = "watching"

\* what buildTarget.outfile prints, for a buildTarget that is not undefined
OutfileText(target) ==
    IF IsPlainObject(target) /\ Has(target, "outfile")
    THEN target.outfile ELSE UndefinedText

----------------------------------------------------------------------------
(* build(), one-shot mode *)

\* Object.assign(baseConfig, target) in the place of the spread
StartBuildsAssign ==
    /\ pc = "main"
    /\ ~isWatch
    /\ log' = Append(log, [msg |-> "building"])
    /\ builds' = [i \in 1..Len(targetsToBuild) |->
                    NewBuild(targetsToBuild[i].key,
                             Spread(baseConfig, targetsToBuild[i].value))]
    /\ baseConfig' =
          Spread(baseConfig, targetsToBuild[Len(targetsToBuild)].value)
    /\ pc' = "awaitAll"
    /\ UNCHANGED <<argv, packageJson, clock, targets,
                   buildTarget, ctx, written, exitCode>>

\* lines 100-108: start the build of every selected target
StartBuilds ==
    /\ pc = "main"
    /\ ~isWatch
    /\ log' = Append(log, [msg |-> "building"])
    /\ builds' = [i \in 1..Len(targetsToBuild) |->
                    NewBuild(targetsToBuild[i].key,
                             Spread(baseConfig, targetsToBuild[i].value))]
    /\ pc' = "awaitAll"
    /\ UNCHANGED <<argv, packageJson, clock, baseConfig, targets,
                   buildTarget, ctx, written, exitCode>>

\* the engine loads a stylesheet of a running build through the hook
OnLoadCSS(i, path, readable, minifiable) ==
    /\ EngineRuns
    /\ builds[i].status = "pending"
    /\ MatchesCSS(path)
    /\ builds[i].loaded[path] = "none"
    /\ LET r == CSSMinifyPlugin(readable, minifiable)
       IN  builds' = [builds EXCEPT
                ![i].reads[path] = @ + r.reads,
                ![i].faults = IF readable /\ minifiable
                              THEN @ ELSE @ \cup {path},
                ![i].loaded[path] = r.result]
    /\ UNCHANGED <<argv, packageJson, clock, pc, baseConfig, targets,
                   buildTarget, ctx, log, written, exitCode>>

\* the engine loads a markup file of a running build through the hook
OnLoadHTML(i, path, readable, minifiable) ==
    /\ EngineRuns
    /\ builds[i].status = "pending"
    /\ MatchesHTML(path)
    /\ builds[i].loaded[path] = "none"
    /\ LET r == HTMLMinifyPlugin(readable, minifiable)
       IN  builds' = [builds EXCEPT
                ![i].reads[path] = @ + r.reads,
                ![i].faults = IF readable /\ minifiable
                              THEN @ ELSE @ \cup {path},
                ![i].loaded[path] = r.result]
    /\ UNCHANGED <<argv, packageJson, clock, pc, baseConfig, targets,
                   buildTarget, ctx, log, written, exitCode>>

HookFailed(b) == \E p \in AssetPaths : b.loaded[p] = "error"

\* the engine finishes a build and writes its output file
BuildFulfil(i) ==
    /\ EngineRuns
    /\ builds[i].status = "pending"
    /\ ~HookFailed(builds[i])
    /\ builds' = [builds EXCEPT ![i].status = "fulfilled"]
    /\ written' = written \cup
          (IF Has(builds[i].config, "outfile")
           THEN {builds[i].config.outfile} ELSE {})
    /\ UNCHANGED <<argv, packageJson, clock, pc, baseConfig, targets,
                   buildTarget, ctx, log, exitCode>>

\* the engine reports errors for a build: a failed hook, or any other error
BuildReject(i) ==
    /\ EngineRuns
    /\ builds[i].status = "pending"
    /\ builds' = [builds EXCEPT ![i].status = "rejected"]
    /\ UNCHANGED <<argv, packageJson, clock, pc, baseConfig, targets,
                   buildTarget, ctx, log, written, exitCode>>

\* lines 105-111: await Promise.all(...) settles and build() goes on
AwaitAll ==
    /\ pc = "awaitAll"
    /\ PromiseAll(builds) # "pending"
    /\ IF PromiseAll(builds) = "rejected" \/ buildTarget = Undefined
       THEN \* the rejection, or the TypeError of undefined.outfile
            /\ pc' = "rejected"
            /\ log' = log
       ELSE /\ pc' = "complete"
            /\ log' = log \o <<[msg |-> "complete",
                                outfile |-> OutfileText(buildTarget)],
                               [msg |-> "version",
                                version |-> packageJson.version]>>
    /\ UNCHANGED <<argv, packageJson, clock, baseConfig, targets,
                   buildTarget, builds, ctx, written, exitCode>>

\* line 115: build().catch(() => process.exit(1))
Catch ==
    /\ pc = "rejected"
    /\ exitCode' = 1
    /\ pc' = "exited"
    /\ UNCHANGED <<argv, packageJson, clock, baseConfig, targets,
                   buildTarget, builds, ctx, log, written>>

\* build() has resolved and nothing is pending: the process ends normally
Exit ==
    /\ pc = "complete"
    /\ exitCode' = 0
    /\ pc' = "exited"
    /\ UNCHANGED <<argv, packageJson, clock, baseConfig, targets,
                   buildTarget, builds, ctx, log, written>>

----------------------------------------------------------------------------
(* build(), watch mode *)

\* line 96: esbuild.context({ ...baseConfig, ...buildTarget })
CreateContext ==
    /\ pc = "main"
    /\ isWatch
    /\ ctx' = [config |-> Spread(baseConfig, buildTarget),
               created |-> FALSE, watching |-> FALSE, rebuilds |-> 0]
    /\ pc' = "context"
    /\ UNCHANGED <<argv, packageJson, clock, baseConfig, targets,
                   buildTarget, builds, log, written, exitCode>>

\* the context promise settles; on success line 97 calls ctx.watch()
ContextSettled(ok) ==
    /\ pc = "context"
    /\ IF ok
       THEN /\ ctx' = [ctx EXCEPT !.created = TRUE]
            /\ pc' = "watch"
       ELSE /\ ctx' = ctx
            /\ pc' = "rejected"
    /\ UNCHANGED <<argv, packageJson, clock, baseConfig, targets,
                   buildTarget, builds, log, written, exitCode>>

\* the watch promise settles; on success line 98 prints the watched file
WatchSettled(ok) ==
    /\ pc = "watch"
    /\ IF ~ok
       THEN /\ ctx' = ctx
            /\ log' = log
            /\ pc' = "rejected"
       ELSE /\ ctx' = [ctx EXCEPT !.watching = TRUE]
            /\ IF buildTarget = Undefined
               THEN \* TypeError of undefined.outfile
                    /\ log' = log
                    /\ pc' = "rejected"
               ELSE /\ log' = Append(log, [msg |-> "watching",
                                 outfile |-> OutfileText(buildTarget)])
                    /\ pc' = "watching"
    /\ UNCHANGED <<argv, packageJson, clock, baseConfig, targets,
                   buildTarget, builds, written, exitCode>>

\* the watch context builds: at the start of the watch and on source changes
Rebuild ==
    /\ pc = "watching"
    /\ ctx.watching
    /\ ctx.rebuilds < MaxRebuilds
    /\ \A i \in 1..Len(builds) : builds[i].status # "pending"
    /\ builds' = Append(builds, NewBuild(targetFormat, ctx.config))
    /\ ctx' = [ctx EXCEPT !.rebuilds = @ + 1]
    /\ UNCHANGED <<argv, packageJson, clock, pc, baseConfig, targets,
                   buildTarget, log, written, exitCode>>

----------------------------------------------------------------------------

Init == InitFrom(Argvs, PackageFixtures, {<<"2025", "2026">>})

Next ==
    \/ Load
    \/ StartBuilds
    \/ \E i \in 1..Len(builds), p \in AssetPaths, r, m \in BOOLEAN :
          OnLoadCSS(i, p, r, m)
    \/ \E i \in 1..Len(builds), p \in AssetPaths, r, m \in BOOLEAN :
          OnLoadHTML(i, p, r, m)
    \/ \E i \in 1..Len(builds) : BuildFulfil(i)
    \/ \E i \in 1..Len(builds) : BuildReject(i)
    \/ AwaitAll
    \/ Catch
    \/ Exit
    \/ CreateContext
    \/ \E ok \in BOOLEAN : ContextSettled(ok)
    \/ \E ok \in BOOLEAN : WatchSettled(ok)
    \/ Rebuild

Spec == Init /\ [][Next]_vars

\* the engine settles every build it runs, and the runtime runs every
\* continuation that is ready
Fairness ==
    /\ WF_vars(Load)
    /\ WF_vars(StartBuilds)
    /\ \A i \in 1..3 :
          WF_vars(pc = "awaitAll" /\ (BuildFulfil(i) \/ BuildReject(i)))
    /\ WF_vars(AwaitAll)
    /\ WF_vars(Catch)
    /\ WF_vars(Exit)

FairSpec == Init /\ [][Next]_vars /\ Fairness

----------------------------------------------------------------------------
(* Properties *)

OneShot == ~isWatch /\ pc # "load"
Keys(bs) == [i \in 1..Len(bs) |-> bs[i].key]
Started == pc \notin {"load", "main"}
Exited == exitCode # NoExit
Printed(m) == \E i \in 1..Len(log) : log[i].msg = m
SomeRejected == \E i \in 1..Len(builds) : builds[i].status = "rejected"
SomePending == \E i \in 1..Len(builds) : builds[i].status = "pending"
AllFulfilled ==
    /\ Len(builds) = 3
    /\ \A i \in 1..Len(builds) : builds[i].status = "fulfilled"
DefinedTargets == {"esm", "cjs", "umd", "umd-versioned"}

\* C1: in one-shot mode, whatever --target says, build() starts exactly one
\* build for each of esm, cjs and umd, with the configuration of that target,
\* and none for umd-versioned, also in the runs where a build fails.
OneShotStartsThree ==
    OneShot =>
        /\ Keys(builds) = IF Started THEN <<"esm", "cjs", "umd">> ELSE <<>>
        /\ \A i \in 1..Len(builds) :
              builds[i].config.outfile =
                  Lookup(targets, builds[i].key).outfile

OneShotStartsThreeWitness ==
    /\ OneShot
    /\ targetFormat = "umd-versioned"
    /\ Keys(builds) = <<"esm", "cjs", "umd">>
    /\ builds[2].status = "rejected"
    /\ exitCode = 1

\* C2: in one-shot mode, once the build of a target has failed, the process
\* never ends with status 0 and never prints 'Build complete', and it does
\* end with status 1.
FailureExitsOne ==
    /\ [](OneShot /\ SomeRejected =>
             exitCode # 0 /\ ~Printed("complete"))
    /\ ((OneShot /\ SomeRejected) ~> (exitCode = 1))

FailureExitsOneWitness ==
    /\ OneShot
    /\ Len(builds) = 3
    /\ builds[1].status = "fulfilled"
    /\ builds[3].status = "rejected"
    /\ exitCode = 1

\* C3: in one-shot mode, a run in which all three builds have succeeded and
\* that has ended, has ended with status 0, whatever --target says.
SuccessExitsZero ==
    OneShot /\ AllFulfilled /\ Exited => exitCode = 0

\* C4: in watch mode every build is a build of the one context, made for the
\* target that --target names, and once the watch has started the script
\* does not end the process.
WatchNeverExits ==
    isWatch /\ pc # "load" =>
        /\ \A i \in 1..Len(builds) :
              /\ builds[i].key = targetFormat
              /\ builds[i].config = Spread(baseConfig, buildTarget)
        /\ (ctx # Undefined /\ ctx.watching => ~Exited)

\* C5 as stated: in one-shot mode, when the run prints 'Build complete' or
\* the process ends, with either status, no started build is in flight.
JoinBarrier ==
    OneShot /\ (Exited \/ Printed("complete")) => ~SomePending

\* C5 amended: in one-shot mode, when the run prints 'Build complete' or the
\* process ends, no started build is in flight, unless a build has failed:
\* then the process ends with status 1 without waiting for the others.
JoinBarrierUnlessFailed ==
    /\ OneShot /\ (Exited \/ Printed("complete")) /\ ~SomeRejected =>
          AllFulfilled
    /\ OneShot /\ Exited /\ SomeRejected => exitCode = 1

JoinBarrierUnlessFailedWitness ==
    /\ OneShot
    /\ Printed("complete")
    /\ AllFulfilled
    /\ exitCode = 0

\* C6: for every version string, the four targets of the table have pairwise
\* distinct output files.
DistinctOutfiles ==
    pc # "load" =>
        /\ Keys(targets) = <<"esm", "cjs", "umd", "umd-versioned">>
        /\ \A i, j \in 1..Len(targets) :
              i # j => targets[i].value.outfile # targets[j].value.outfile

DistinctOutfilesWitness ==
    /\ pc = "main"
    /\ packageJson.version = <<>>
    /\ Len(targets) = 4

\* C7: in one-shot mode, a build in which a load hook has failed (the file
\* could not be read, or the minifier rejected it) never succeeds, the hook
\* has read that path once, and the run ends with status 1, never with 0.
HookFailureFails ==
    /\ [](OneShot =>
            \A i \in 1..Len(builds) :
                /\ \A p \in AssetPaths : builds[i].reads[p] <= 1
                /\ builds[i].faults # {} =>
                      /\ builds[i].status # "fulfilled"
                      /\ exitCode # 0)
    /\ ((OneShot /\ \E i \in 1..Len(builds) : builds[i].faults # {})
           ~> (exitCode = 1))

HookFailureFailsWitness ==
    /\ OneShot
    /\ Len(builds) = 3
    /\ builds[1].faults = {"html"}
    /\ builds[1].status = "rejected"
    /\ builds[2].faults = {"css"}
    /\ builds[2].status = "pending"
    /\ exitCode = 1

ConfigKeys == {"format", "outfile", "globalName"}

AgreesWithBase(config) ==
    \A k \in DOMAIN baseConfig \ ConfigKeys :
        k \in DOMAIN config /\ config[k] = baseConfig[k]

\* C8: after construction the base configuration and the targets table never
\* change, and every configuration handed to the engine, in one-shot and in
\* watch mode, agrees with the base configuration on all keys other than
\* format, outfile and globalName, the banner among them.
ConfigImmutable ==
    /\ [][pc # "load" =>
            /\ baseConfig' = baseConfig
            /\ targets' = targets
            /\ buildTarget' = buildTarget]_vars
    /\ [](pc # "load" =>
            /\ baseConfig = BaseConfig(packageJson, clock, isMinify)
            /\ \A i \in 1..Len(builds) : AgreesWithBase(builds[i].config)
            /\ ctx # Undefined => AgreesWithBase(ctx.config))

ConfigImmutableWitness ==
    /\ isWatch
    /\ ctx # Undefined
    /\ ctx.watching
    /\ Len(builds) = 2
    /\ builds[2].config.banner = baseConfig.banner
    /\ builds[2].config.outfile = VersionedOutfile(packageJson.version)

\* C9: for every package.json, with or without the optional fields, the
\* banner has the line that ends with 'Accessibility Widget v<version>' and
\* the line that ends with 'License: <license>'.
BannerHasVersionAndLicense ==
    pc # "load" =>
        /\ Contains(baseConfig.banner.js,
              <<"Accessibility Widget v">> \o packageJson.version \o <<"\n">>)
        /\ Contains(baseConfig.banner.js,
              <<"License: ">> \o packageJson.license \o <<"\n">>)

BannerHasVersionAndLicenseWitness ==
    /\ pc = "main"
    /\ packageJson.version = <<"1", ".", "2", ".", "3">>
    /\ packageJson.license = <<"M", "I", "T">>
    /\ DOMAIN OptionalFields \subseteq DOMAIN packageJson
    /\ Contains(baseConfig.banner.js,
          <<"Accessibility Widget v", "1", ".", "2", ".", "3">>)
    /\ Contains(baseConfig.banner.js, <<"License: ", "M", "I", "T">>)

\* C10: in one-shot mode with --target naming a defined target, the file
\* that the 'Build complete' message names has been written by a build of
\* this run.
CompleteNamesWrittenFile ==
    OneShot /\ targetFormat \in DefinedTargets =>
        \A i \in 1..Len(log) :
            log[i].msg = "complete" => log[i].outfile \in written

====
